---- MODULE Spec2Model ----
(***************************************************************************)
(* Atlas of Sol: the content graph loader (src/lib/content/               *)
(* get-content-index.ts).  A run of loadContentIndex discovers the content *)
(* documents, parses and schema-validates each, assembles the id-keyed     *)
(* staging map, runs the three integrity passes and materializes the      *)
(* index.  The documents on disk are the input of the run.                 *)
(***************************************************************************)
EXTENDS Integers, Sequences, FiniteSets, TLC

VARIABLES
    rootExists,   \* fs.stat(contentRoot) says "is a directory"
    disk,         \* the candidate documents under content/, one per file
    pc,           \* position of loadContentIndex
    files,        \* result of listContentFiles, in discovery order
    cursor,       \* index into files of the staging loop
    entriesById,  \* the staging Map<string, IndexedEntity>, in insertion order
    error,        \* the thrown Error (type "none" while nothing was thrown)
    index,        \* the returned ContentIndex (meaningful once pc = "done")
    anchorId,     \* the anchor the orbit map is derived for
    vpc,          \* position of the derivation: "idle", "walk", "exit", "returned"
    lane,         \* the OrbitLaneModel returned by deriveOrbitLaneModel
    bcCursor,     \* buildBreadcrumb: `cursor`, <<>> when undefined
    visited,      \* buildBreadcrumb: the `visited` set
    chain,        \* buildBreadcrumb: `chain`
    crumbs,       \* the list returned by buildBreadcrumb
    hooks,            \* AtlasMapShell: the state React holds for the useState hooks
    transitionPhase,  \* AtlasMapShell: `transitionPhase` as the last render read it
    timers,           \* the window's pending timeouts, in the order they are due
    nextTimerId,      \* the handle the next window.setTimeout returns
    fadeOutTimerRef,  \* fadeOutTimerRef.current, 0 for null
    fadeInTimerRef,   \* fadeInTimerRef.current, 0 for null
    mounted           \* AtlasMapShell is mounted

viewVars == <<anchorId, vpc, lane, bcCursor, visited, chain, crumbs>>

shellVars == <<hooks, transitionPhase, timers, nextTimerId, fadeOutTimerRef,
               fadeInTimerRef, mounted>>

vars == <<rootExists, disk, pc, files, cursor, entriesById, error, index,
          anchorId, vpc, lane, bcCursor, visited, chain, crumbs,
          hooks, transitionPhase, timers, nextTimerId, fadeOutTimerRef,
          fadeInTimerRef, mounted>>

----------------------------------------------------------------------------
(* Bounds of the model.                                                    *)

\* The documents on disk differ from the reference catalogue in at most
\* MaxEdits places (a changed field, a removed file).
MaxEdits == 1
\* Longest relations[] array a mission document is edited to.
MaxRelations == 1
\* The longest text of a highlight, in characters, and the longest list of
\* sources.
MaxTextLen == 3
MaxSources == 2
\* The most timeouts the window hands out: each anchor change takes two.
MaxTimers == 4

----------------------------------------------------------------------------
(* Documents.                                                              *)

\* No value: an optional field that is absent, or a field of another kind.
NoId == ""
\* `navOrder` absent (undefined); the navOrder values of the model are
\* natural numbers.
Undefined == -1
\* Number.POSITIVE_INFINITY as used by sortBodies for an absent navOrder.
\* Every navOrder of the model is below it.
POSITIVE_INFINITY == 1000

\* The id strings documents declare and reference.  "ghost" is declared by
\* no document of the reference catalogue.
Ids == {"sol", "sol/sun", "sol/earth", "sol/mars", "sol/moon", "tau", "tau/ceti", "voyager", "apollo", "ghost"}

\* ContentEntityKind.
Kinds == {"system", "body", "mission"}

\* kindFromFilename: the kind a basename stands for.
kindFromFilename(filename) ==
    IF filename = "system.json" THEN "system"
    ELSE IF filename = "body.json" THEN "body"
    ELSE IF filename = "mission.json" THEN "mission"
    ELSE "unknown"

\* A file on disk.  `relPath` identifies the file, `basename` is its file
\* name, `parse` tells whether the bytes are JSON and whether the JSON fits
\* the schema of the file's kind; the other fields are the parsed document.
\* `name` is the collation rank of the display name (what localeCompare
\* orders by); equal names have equal rank.  `highlights` and
\* `scientificSynthesis` are lists of texts, a text being the sequence of
\* its characters, and <<>> when the field is absent; `sources` is the
\* number of sources, Undefined when the field is absent.  `parse` is the
\* verdict on everything in the file but these three fields.
\* `curationScore` is a Body's score, Undefined on the other kinds.
Doc(relPath, basename, id, name, primaryBodyId, systemId, navParentId, navOrder, relations) ==
    [relPath |-> relPath, basename |-> basename, parse |-> "ok",
     id |-> id, name |-> name, primaryBodyId |-> primaryBodyId,
     systemId |-> systemId, navParentId |-> navParentId,
     navOrder |-> navOrder, relations |-> relations,
     highlights |-> <<>>, scientificSynthesis |-> <<>>, sources |-> Undefined,
     curationScore |-> Undefined]

SystemDoc(relPath, id, name, primaryBodyId) ==
    Doc(relPath, "system.json", id, name, primaryBodyId, NoId, NoId, Undefined, <<>>)

BodyDoc(relPath, id, name, systemId, navParentId, navOrder, curationScore) ==
    [Doc(relPath, "body.json", id, name, NoId, systemId, navParentId, navOrder, <<>>)
        EXCEPT !.curationScore = curationScore]

MissionDoc(relPath, id, name, relations) ==
    Doc(relPath, "mission.json", id, name, NoId, NoId, NoId, Undefined, relations)

\* The reference catalogue: two systems, each with its primary body, two
\* planets with the same navOrder, a moon, and two missions, in an order of
\* files that is not the order of any sort.  Of the two planets the one
\* later by name has the higher curationScore.
BaseCatalogue ==
    << SystemDoc(1, "sol", 7, "sol/sun"),
       BodyDoc(2, "sol/sun", 6, "sol", "sol", 0, 100),
       BodyDoc(3, "sol/moon", 4, "sol", "sol/earth", Undefined, 60),
       BodyDoc(4, "sol/mars", 3, "sol", "sol/sun", 3, 90),
       BodyDoc(5, "sol/earth", 2, "sol", "sol/sun", 3, 50),
       SystemDoc(6, "tau", 5, "tau/ceti"),
       BodyDoc(7, "tau/ceti", 1, "tau", "tau", Undefined, 80),
       MissionDoc(8, "voyager", 8, <<"sol/earth">>),
       MissionDoc(9, "apollo", 0, <<"sol/moon">>) >>

\* The display names (collation ranks) and the navOrder values an edit
\* may write: those the reference catalogue uses.
Names == {BaseCatalogue[i].name : i \in DOMAIN BaseCatalogue}

NavOrders == {BaseCatalogue[i].navOrder : i \in DOMAIN BaseCatalogue}

RECURSIVE SeqsUpTo(_, _)
\* All sequences over S of length at most n.
SeqsUpTo(S, n) ==
    IF n = 0 THEN {<<>>}
    ELSE LET shorter == SeqsUpTo(S, n - 1)
         IN  shorter \cup {Append(s, x) : s \in {t \in shorter : Len(t) = n - 1}, x \in S}

\* The targetIds an edit may put in a Mission's relations: a System, a
\* Body, a Mission and an id that no document declares.
RelationTargets == {"sol", "sol/earth", "voyager", "ghost"}

\* The fields of a document an edit may change, and the values it may take.
EditableFields(doc) ==
    {"parse", "id", "name"} \cup
    (CASE doc.basename = "system.json" -> {"primaryBodyId"}
       [] doc.basename = "body.json" -> {"systemId", "navParentId", "navOrder"}
       [] OTHER -> {"relations"})

FieldValues(field) ==
    CASE field = "parse" -> {"ok", "badjson", "badschema"}
      [] field = "relations" -> SeqsUpTo(RelationTargets, MaxRelations)
      [] field = "name" -> Names
      [] field = "navOrder" -> NavOrders
      [] OTHER -> Ids

\* c without its i-th file.
RemoveFile(c, i) == [j \in 1..(Len(c) - 1) |-> IF j < i THEN c[j] ELSE c[j + 1]]

\* c with field f of its i-th file set to v.
EditField(c, i, f, v) == [c EXCEPT ![i] = [@ EXCEPT ![f] = v]]

RECURSIVE EditedFrom(_, _)
\* The documents on disk are c or a catalogue at most k edits away from c.
EditedFrom(c, k) ==
    \/ disk = c
    \/ /\ k > 0
       /\ \E i \in 1..Len(c) :
            \/ EditedFrom(RemoveFile(c, i), k - 1)
            \/ \E f \in EditableFields(c[i]) : \E v \in FieldValues(f) :
                  EditedFrom(EditField(c, i, f, v), k - 1)

----------------------------------------------------------------------------
(* Entities, the staging map and errors.                                   *)

\* parsed.data: the schema-validated entity payload of a document.
EntityOf(doc) ==
    [id |-> doc.id, name |-> doc.name, primaryBodyId |-> doc.primaryBodyId,
     systemId |-> doc.systemId, navParentId |-> doc.navParentId,
     navOrder |-> doc.navOrder, relations |-> doc.relations,
     highlights |-> doc.highlights, scientificSynthesis |-> doc.scientificSynthesis,
     sources |-> doc.sources, curationScore |-> doc.curationScore]

\* IndexedEntity.
IndexedEntity(kind, relPath, data) == [kind |-> kind, relPath |-> relPath, data |-> data]

\* Map.prototype.has / get / set on a map kept as the sequence of its
\* entries in insertion order; the key of an entry is its data.id.
MapHas(m, id) == \E i \in DOMAIN m : m[i].data.id = id

MapGet(m, id) == m[CHOOSE i \in DOMAIN m : m[i].data.id = id]

MapSet(m, entry) ==
    IF MapHas(m, entry.data.id)
    THEN [i \in DOMAIN m |-> IF m[i].data.id = entry.data.id THEN entry ELSE m[i]]
    ELSE Append(m, entry)

MapKeys(m) == {m[i].data.id : i \in DOMAIN m}

\* A thrown Error: `type` is the head of its message, `reason` the
\* parenthesis that ends it, and the other fields what the message names.
Thrown(type, reason, id, ref, kind, relPath, existingKind, existingRelPath) ==
    [type |-> type, reason |-> reason, id |-> id, ref |-> ref,
     kind |-> kind, relPath |-> relPath,
     existingKind |-> existingKind, existingRelPath |-> existingRelPath]

\* Nothing was thrown.
NoError == Thrown("none", "", NoId, NoId, "", 0, "", 0)

\* The first error of a sequence of check results (NoError if none).
FirstError(errs) ==
    LET bad == {i \in DOMAIN errs : errs[i].type # "none"}
    IN  IF bad = {} THEN NoError
        ELSE errs[CHOOSE i \in bad : \A j \in bad : i <= j]

----------------------------------------------------------------------------
(* Stages 1 to 3: discovery, parsing, identity assembly.                   *)

\* s in reverse order.
Reverse(s) == [i \in 1..Len(s) |-> s[Len(s) + 1 - i]]

\* The orders listContentFiles may return the files in (readdir promises
\* no order): the order on disk and its reverse.
DiscoveryOrders(d) == {d, Reverse(d)}

\* The characters of the texts of the model: the brackets, three digits
\* and a letter.
Digits == {"0", "1", "2"}

Alphabet == Digits \cup {"[", "]", "x"}

DigitValue(c) == CASE c = "0" -> 0 [] c = "1" -> 1 [] c = "2" -> 2

RECURSIVE parseInt(_)
\* Number.parseInt(digits, 10) on a run of digits.
parseInt(digits) ==
    IF digits = <<>> THEN 0
    ELSE 10 * parseInt(SubSeq(digits, 1, Len(digits) - 1)) + DigitValue(digits[Len(digits)])

RECURSIVE DigitsEnd(_, _)
\* The first position from j on that holds no digit.
DigitsEnd(text, j) ==
    IF j <= Len(text) /\ text[j] \in Digits THEN DigitsEnd(text, j + 1) ELSE j

RECURSIVE matchAll(_, _)
\* text.matchAll(/\[(\d+)\]/g) from position i on: the numbers of the
\* markers found, left to right.
matchAll(text, i) ==
    IF i > Len(text) THEN <<>>
    ELSE LET close == DigitsEnd(text, i + 1)
         IN  IF text[i] = "[" /\ close > i + 1 /\ close <= Len(text) /\ text[close] = "]"
             THEN <<parseInt(SubSeq(text, i + 1, close - 1))>> \o matchAll(text, close + 1)
             ELSE matchAll(text, i + 1)

RECURSIVE CitationsIn(_, _, _)
\* The citations of the texts of `list` from entry i on, each with the path
\* of the entry it is in.
CitationsIn(list, field, i) ==
    IF i > Len(list) THEN <<>>
    ELSE LET found == matchAll(list[i], 1)
         IN  [k \in DOMAIN found |-> [n |-> found[k], path |-> <<field, i - 1>>]]
             \o CitationsIn(list, field, i + 1)

\* The superRefine of bodySchema that accepts a marker [0].
bodySchemaRefineFromZero(value) ==
    LET citations == CitationsIn(value.highlights, "highlights", 1)
                     \o CitationsIn(value.scientificSynthesis, "scientificSynthesis", 1)
        OutOfRange(c) == c.n < 0 \/ c.n > value.sources
    IN  IF citations = <<>> THEN <<>>
        ELSE IF value.sources = Undefined
        THEN <<[message |-> "sources are required", path |-> <<"sources">>]>>
        ELSE LET bad == SelectSeq(citations, OutOfRange)
             IN  [k \in DOMAIN bad |-> [message |-> "out of range", path |-> bad[k].path]]

\* The superRefine of bodySchema: the issues it adds, a missing `sources`
\* as one issue on path sources, an out-of-range citation as an issue on
\* its own path.
bodySchemaRefine(value) ==
    LET citations == CitationsIn(value.highlights, "highlights", 1)
                     \o CitationsIn(value.scientificSynthesis, "scientificSynthesis", 1)
        OutOfRange(c) == c.n < 1 \/ c.n > value.sources
    IN  IF citations = <<>> THEN <<>>
        ELSE IF value.sources = Undefined
        THEN <<[message |-> "sources are required", path |-> <<"sources">>]>>
        ELSE LET bad == SelectSeq(citations, OutOfRange)
             IN  [k \in DOMAIN bad |-> [message |-> "out of range", path |-> bad[k].path]]

\* safeParse of the schema of `kind` fails on doc.
SchemaFails(kind, doc) ==
    doc.parse = "badschema" \/ (kind = "body" /\ bodySchemaRefine(doc) # <<>>)

\* StageError without the duplicate-id check: a later document silently
\* overwrites an earlier one.
StageErrorNoDuplicateCheck(m, doc) ==
    LET kind == kindFromFilename(doc.basename)
    IN  IF kind = "unknown" THEN NoError
        ELSE IF doc.parse = "badjson"
        THEN Thrown("Invalid JSON", "", NoId, NoId, kind, doc.relPath, "", 0)
        ELSE IF SchemaFails(kind, doc)
        THEN Thrown("Schema validation failed", "", NoId, NoId, kind, doc.relPath, "", 0)
        ELSE NoError

\* StageError that lets a schema-invalid document through.
StageErrorNoSchemaCheck(m, doc) ==
    LET kind == kindFromFilename(doc.basename)
    IN  IF kind = "unknown" THEN NoError
        ELSE IF doc.parse = "badjson"
        THEN Thrown("Invalid JSON", "", NoId, NoId, kind, doc.relPath, "", 0)
        ELSE IF MapHas(m, doc.id)
        THEN Thrown("Duplicate id", "", doc.id, NoId, kind, doc.relPath,
                    MapGet(m, doc.id).kind, MapGet(m, doc.id).relPath)
        ELSE NoError

\* StageError that compares a document's id with the last entry added only.
StageErrorDuplicateOfPreviousOnly(m, doc) ==
    LET kind == kindFromFilename(doc.basename)
    IN  IF kind = "unknown" THEN NoError
        ELSE IF doc.parse = "badjson"
        THEN Thrown("Invalid JSON", "", NoId, NoId, kind, doc.relPath, "", 0)
        ELSE IF SchemaFails(kind, doc)
        THEN Thrown("Schema validation failed", "", NoId, NoId, kind, doc.relPath, "", 0)
        ELSE IF Len(m) > 0 /\ m[Len(m)].data.id = doc.id
        THEN Thrown("Duplicate id", "", doc.id, NoId, kind, doc.relPath,
                    m[Len(m)].kind, m[Len(m)].relPath)
        ELSE NoError

\* One iteration of the staging loop on file `doc` with staging map m:
\* the error it throws (NoError if it adds the entity or skips the file).
StageError(m, doc) ==
    LET kind == kindFromFilename(doc.basename)
    IN  IF kind = "unknown" THEN NoError
        ELSE IF doc.parse = "badjson"
        THEN Thrown("Invalid JSON", "", NoId, NoId, kind, doc.relPath, "", 0)
        ELSE IF SchemaFails(kind, doc)
        THEN Thrown("Schema validation failed", "", NoId, NoId, kind, doc.relPath, "", 0)
        ELSE IF MapHas(m, doc.id)
        THEN Thrown("Duplicate id", "", doc.id, NoId, kind, doc.relPath,
                    MapGet(m, doc.id).kind, MapGet(m, doc.id).relPath)
        ELSE NoError

\* The staging map after that iteration, when it throws nothing.
StageSet(m, doc) ==
    LET kind == kindFromFilename(doc.basename)
    IN  IF kind = "unknown" THEN m
        ELSE MapSet(m, IndexedEntity(kind, doc.relPath, EntityOf(doc)))

----------------------------------------------------------------------------
(* Stage 4: validateReferenceIntegrity.                                    *)

\* SystemCheck without the comparison of the primary body's systemId.
SystemCheckNoOwnerCheck(m, entry) ==
    LET system == entry.data
        id == entry.data.id
    IN  IF entry.kind # "system" THEN NoError
        ELSE IF ~MapHas(m, system.primaryBodyId) \/ MapGet(m, system.primaryBodyId).kind # "body"
        THEN Thrown("Invalid primaryBodyId", "no body with that id",
                    id, system.primaryBodyId, entry.kind, entry.relPath, "", 0)
        ELSE IF MapGet(m, system.primaryBodyId).data.navParentId # system.id
        THEN Thrown("Invalid primaryBodyId", "primary body must have navParentId",
                    id, system.primaryBodyId, entry.kind, entry.relPath, "", 0)
        ELSE NoError

\* First loop, one system entry: the error it throws.
SystemCheck(m, entry) ==
    LET system == entry.data
        id == entry.data.id
    IN  IF entry.kind # "system" THEN NoError
        ELSE IF ~MapHas(m, system.primaryBodyId) \/ MapGet(m, system.primaryBodyId).kind # "body"
        THEN Thrown("Invalid primaryBodyId", "no body with that id",
                    id, system.primaryBodyId, entry.kind, entry.relPath, "", 0)
        ELSE IF MapGet(m, system.primaryBodyId).data.systemId # system.id
        THEN Thrown("Invalid primaryBodyId", "body belongs to system",
                    id, system.primaryBodyId, entry.kind, entry.relPath, "", 0)
        ELSE IF MapGet(m, system.primaryBodyId).data.navParentId # system.id
        THEN Thrown("Invalid primaryBodyId", "primary body must have navParentId",
                    id, system.primaryBodyId, entry.kind, entry.relPath, "", 0)
        ELSE NoError

\* BodyCheck that accepts a systemId naming an entity of any kind.
BodyCheckAnyKindSystem(m, entry) ==
    LET body == entry.data
        id == entry.data.id
    IN  IF entry.kind # "body" THEN NoError
        ELSE IF ~MapHas(m, body.systemId)
        THEN Thrown("Invalid systemId", "no system with that id",
                    id, body.systemId, entry.kind, entry.relPath, "", 0)
        ELSE IF body.navParentId = id
        THEN Thrown("Invalid navParentId", "cannot be its own parent",
                    id, body.navParentId, entry.kind, entry.relPath, "", 0)
        ELSE IF ~MapHas(m, body.navParentId)
        THEN Thrown("Invalid navParentId", "no entity with that id",
                    id, body.navParentId, entry.kind, entry.relPath, "", 0)
        ELSE IF /\ body.navParentId = body.systemId
                /\ body.id # MapGet(m, body.systemId).data.primaryBodyId
        THEN Thrown("Invalid navParentId",
                    "only the system primary body may be a direct child of the system root",
                    id, body.navParentId, entry.kind, entry.relPath, "", 0)
        ELSE NoError

\* BodyCheck without the self-parent check.
BodyCheckNoSelfParentCheck(m, entry) ==
    LET body == entry.data
        id == entry.data.id
    IN  IF entry.kind # "body" THEN NoError
        ELSE IF ~MapHas(m, body.systemId) \/ MapGet(m, body.systemId).kind # "system"
        THEN Thrown("Invalid systemId", "no system with that id",
                    id, body.systemId, entry.kind, entry.relPath, "", 0)
        ELSE IF ~MapHas(m, body.navParentId)
        THEN Thrown("Invalid navParentId", "no entity with that id",
                    id, body.navParentId, entry.kind, entry.relPath, "", 0)
        ELSE IF /\ body.navParentId = body.systemId
                /\ body.id # MapGet(m, body.systemId).data.primaryBodyId
        THEN Thrown("Invalid navParentId",
                    "only the system primary body may be a direct child of the system root",
                    id, body.navParentId, entry.kind, entry.relPath, "", 0)
        ELSE NoError

\* BodyCheck without the system-root-child check.
BodyCheckNoRootChildCheck(m, entry) ==
    LET body == entry.data
        id == entry.data.id
    IN  IF entry.kind # "body" THEN NoError
        ELSE IF ~MapHas(m, body.systemId) \/ MapGet(m, body.systemId).kind # "system"
        THEN Thrown("Invalid systemId", "no system with that id",
                    id, body.systemId, entry.kind, entry.relPath, "", 0)
        ELSE IF body.navParentId = id
        THEN Thrown("Invalid navParentId", "cannot be its own parent",
                    id, body.navParentId, entry.kind, entry.relPath, "", 0)
        ELSE IF ~MapHas(m, body.navParentId)
        THEN Thrown("Invalid navParentId", "no entity with that id",
                    id, body.navParentId, entry.kind, entry.relPath, "", 0)
        ELSE NoError

\* Second loop, one body entry: the error it throws.
BodyCheck(m, entry) ==
    LET body == entry.data
        id == entry.data.id
    IN  IF entry.kind # "body" THEN NoError
        ELSE IF ~MapHas(m, body.systemId) \/ MapGet(m, body.systemId).kind # "system"
        THEN Thrown("Invalid systemId", "no system with that id",
                    id, body.systemId, entry.kind, entry.relPath, "", 0)
        ELSE IF body.navParentId = id
        THEN Thrown("Invalid navParentId", "cannot be its own parent",
                    id, body.navParentId, entry.kind, entry.relPath, "", 0)
        ELSE IF ~MapHas(m, body.navParentId)
        THEN Thrown("Invalid navParentId", "no entity with that id",
                    id, body.navParentId, entry.kind, entry.relPath, "", 0)
        ELSE IF /\ body.navParentId = body.systemId
                /\ body.id # MapGet(m, body.systemId).data.primaryBodyId
        THEN Thrown("Invalid navParentId",
                    "only the system primary body may be a direct child of the system root",
                    id, body.navParentId, entry.kind, entry.relPath, "", 0)
        ELSE NoError

\* MissionCheck that resolves no targetId.
MissionCheckNothing(m, entry) == NoError

\* Third loop, one mission entry: the error it throws.
MissionCheck(m, entry) ==
    LET mission == entry.data
        id == entry.data.id
        errs == [r \in DOMAIN mission.relations |->
                    IF ~MapHas(m, mission.relations[r])
                    THEN Thrown("Invalid relation targetId", "", id, mission.relations[r],
                                entry.kind, entry.relPath, "", 0)
                    ELSE NoError]
    IN  IF entry.kind # "mission" THEN NoError
        ELSE FirstError(errs)

\* PassAError that checks only the first entry before the bodies are checked.
PassAErrorFirstEntryOnly(m) ==
    IF m = <<>> THEN NoError ELSE SystemCheck(m, m[1])

\* The three loops over entriesById.entries(), each in insertion order.
PassAError(m) == FirstError([i \in DOMAIN m |-> SystemCheck(m, m[i])])

PassBError(m) == FirstError([i \in DOMAIN m |-> BodyCheck(m, m[i])])

PassCError(m) == FirstError([i \in DOMAIN m |-> MissionCheck(m, m[i])])

----------------------------------------------------------------------------
(* Stages 5 and 6: the index.                                              *)

\* sortBodies that compares an absent navOrder as it is stored, below every
\* navOrder present.
sortBodiesUndefinedFirst(a, b) ==
    IF a.navOrder # b.navOrder THEN a.navOrder - b.navOrder ELSE a.name - b.name

\* sortBodies: negative, zero or positive as a sorts before, with or after b.
sortBodies(a, b) ==
    LET navA == IF a.navOrder = Undefined THEN POSITIVE_INFINITY ELSE a.navOrder
        navB == IF b.navOrder = Undefined THEN POSITIVE_INFINITY ELSE b.navOrder
    IN  IF navA # navB THEN navA - navB ELSE a.name - b.name

\* The comparator of systems.sort and missions.sort.
sortByName(a, b) == a.name - b.name

RECURSIVE SortBodies(_)
\* Array.prototype.sort(sortBodies): a stable sort.
SortBodies(s) ==
    IF s = <<>> THEN <<>>
    ELSE LET front == SortBodies(SubSeq(s, 1, Len(s) - 1))
             x == s[Len(s)]
             k == Cardinality({i \in DOMAIN front : sortBodies(front[i], x) <= 0})
         IN  SubSeq(front, 1, k) \o <<x>> \o SubSeq(front, k + 1, Len(front))

RECURSIVE SortByName(_)
\* Array.prototype.sort by name.localeCompare: a stable sort.
SortByName(s) ==
    IF s = <<>> THEN <<>>
    ELSE LET front == SortByName(SubSeq(s, 1, Len(s) - 1))
             x == s[Len(s)]
             k == Cardinality({i \in DOMAIN front : sortByName(front[i], x) <= 0})
         IN  SubSeq(front, 1, k) \o <<x>> \o SubSeq(front, k + 1, Len(front))

\* The entity payloads of the entries of kind `kind`, in insertion order.
DataOfKind(m, kind) ==
    LET IsKind(e) == e.kind = kind
        picked == SelectSeq(m, IsKind)
    IN  [i \in DOMAIN picked |-> picked[i].data]

\* GroupBy that puts every body in every group.
GroupByAnyKey(bodies, field, key) == SortBodies(bodies)

\* The bodies of list `bodies` with b[field] = key, sorted.
GroupBy(bodies, field, key) ==
    LET InGroup(b) == b[field] = key
    IN  SortBodies(SelectSeq(bodies, InGroup))

\* The ContentIndex built from staging map m.
BuildIndex(m) ==
    LET bodies == SortBodies(DataOfKind(m, "body"))
    IN  [systems |-> SortByName(DataOfKind(m, "system")),
         bodies |-> bodies,
         missions |-> SortByName(DataOfKind(m, "mission")),
         entitiesById |-> [id \in MapKeys(m) |-> MapGet(m, id).data],
         bodiesBySystemId |->
            [k \in {bodies[i].systemId : i \in DOMAIN bodies} |-> GroupBy(bodies, "systemId", k)],
         childrenByParentId |->
            [k \in {bodies[i].navParentId : i \in DOMAIN bodies} |-> GroupBy(bodies, "navParentId", k)]]

\* The index returned when content/ is absent.
EmptyIndex ==
    [systems |-> <<>>, bodies |-> <<>>, missions |-> <<>>,
     entitiesById |-> <<>>, bodiesBySystemId |-> <<>>, childrenByParentId |-> <<>>]

----------------------------------------------------------------------------
(* loadContentIndex as a function of the discovered files.                 *)

RECURSIVE StageFrom(_, _, _)
\* The staging loop over fs from file i on, entered with staging map m:
\* the error it throws (NoError if none) and the staging map it leaves.
StageFrom(fs, i, m) ==
    IF i > Len(fs) THEN [error |-> NoError, entriesById |-> m]
    ELSE LET e == StageError(m, fs[i])
         IN  IF e.type # "none" THEN [error |-> e, entriesById |-> m]
             ELSE StageFrom(fs, i + 1, StageSet(m, fs[i]))

\* validateReferenceIntegrity: the error it throws (NoError if it returns).
validateReferenceIntegrity(m) ==
    IF PassAError(m).type # "none" THEN PassAError(m)
    ELSE IF PassBError(m).type # "none" THEN PassBError(m)
    ELSE PassCError(m)

\* loadContentIndex on an existing content root whose files are discovered
\* as fs: the error thrown (NoError if none) and the index returned.
loadContentIndex(fs) ==
    LET staged == StageFrom(fs, 1, <<>>)
    IN  IF staged.error.type # "none" THEN [error |-> staged.error, index |-> EmptyIndex]
        ELSE IF validateReferenceIntegrity(staged.entriesById).type # "none"
        THEN [error |-> validateReferenceIntegrity(staged.entriesById), index |-> EmptyIndex]
        ELSE [error |-> NoError, index |-> BuildIndex(staged.entriesById)]

\* scripts/content/validate, phase 2, one body entry: the error it throws.
ValidateBodyCheck(m, entry) ==
    LET body == entry.data
        id == entry.data.id
    IN  IF entry.kind # "body" THEN NoError
        ELSE IF ~MapHas(m, body.systemId) \/ MapGet(m, body.systemId).kind # "system"
        THEN Thrown("Invalid systemId", "no system with that id",
                    id, body.systemId, entry.kind, entry.relPath, "", 0)
        ELSE IF body.navParentId = id
        THEN Thrown("Invalid navParentId", "cannot be its own parent",
                    id, body.navParentId, entry.kind, entry.relPath, "", 0)
        ELSE IF ~MapHas(m, body.navParentId)
        THEN Thrown("Invalid navParentId", "no entity with that id",
                    id, body.navParentId, entry.kind, entry.relPath, "", 0)
        ELSE NoError

\* scripts/content/validate, phases 2 and 3: the loops over
\* entitiesById.entries().
ValidatePhase2Error(m) == FirstError([i \in DOMAIN m |-> ValidateBodyCheck(m, m[i])])

ValidatePhase3Error(m) == FirstError([i \in DOMAIN m |-> MissionCheck(m, m[i])])

\* main of scripts/content/validate, with the files discovered as fs: the
\* error it exits with (NoError when it prints its success summary or
\* skips for want of a content directory).
validateMain(exists, fs) ==
    LET staged == StageFrom(fs, 1, <<>>)
    IN  IF ~exists THEN NoError
        ELSE IF staged.error.type # "none" THEN staged.error
        ELSE IF ValidatePhase2Error(staged.entriesById).type # "none"
        THEN ValidatePhase2Error(staged.entriesById)
        ELSE ValidatePhase3Error(staged.entriesById)

\* Every order listContentFiles could have returned the files fs in.
Reorderings(fs) == {[i \in DOMAIN fs |-> fs[p[i]]] : p \in Permutations(DOMAIN fs)}

----------------------------------------------------------------------------
(* The derivations of the orbit map (atlas-map-utils).                     *)

\* indexById: the lookup table of items by id; a later item with an id
\* overwrites an earlier one.
indexById(items) ==
    [id \in {items[i].id : i \in DOMAIN items} |->
        items[CHOOSE i \in DOMAIN items :
                /\ items[i].id = id
                /\ \A j \in DOMAIN items : items[j].id = id => j <= i]]

\* Names every plain object inherits from Object.prototype; "constructor"
\* stands for them all (toString, valueOf, hasOwnProperty, ...).  No
\* document of the model declares one as its id.
ObjectPrototypeKeys == {"constructor"}

\* What table["constructor"] reads when the table has no such key of its
\* own: the function Object, on which id, systemId, navParentId and
\* primaryBodyId read undefined.
ObjectConstructor ==
    [id |-> NoId, name |-> 0, primaryBodyId |-> NoId, systemId |-> NoId,
     navParentId |-> NoId, navOrder |-> Undefined, relations |-> <<>>,
     highlights |-> <<>>, scientificSynthesis |-> <<>>, sources |-> Undefined,
     curationScore |-> Undefined]

\* table[key] on a lookup table that is a plain object: <<value>> when the
\* read gives a value, own or inherited, and <<>> when it gives undefined.
PropertyOf(table, key) ==
    IF key \in DOMAIN table THEN <<table[key]>>
    ELSE IF key \in ObjectPrototypeKeys THEN <<ObjectConstructor>>
    ELSE <<>>

\* getChildren: childrenByParentId[parentId] ?? [].
getChildren(parentId, childrenByParentId) ==
    IF parentId \in DOMAIN childrenByParentId THEN childrenByParentId[parentId] ELSE <<>>

\* getChildren read an inherited member, which is no array: spreading it
\* into laneBodies throws a TypeError.
SpreadThrows(parentId, childrenByParentId) ==
    parentId \notin DOMAIN childrenByParentId /\ parentId \in ObjectPrototypeKeys

\* An OrbitLaneModel; system and centerBody are <<>> for null.
OrbitLaneModel(system, centerBody, orbiters, laneBodies, isSystemRoot, thrown) ==
    [system |-> system, centerBody |-> centerBody, orbiters |-> orbiters,
     laneBodies |-> laneBodies, isSystemRoot |-> isSystemRoot, thrown |-> thrown]

\* deriveOrbitLaneModel that resolves body anchors only: a system anchor
\* gets the empty lane.
deriveOrbitLaneModelBodiesOnly(a, systemsById, bodiesById, childrenByParentId) ==
    LET anchorBody == PropertyOf(bodiesById, a)
    IN  IF anchorBody # <<>>
        THEN OrbitLaneModel(PropertyOf(systemsById, anchorBody[1].systemId), anchorBody,
                            getChildren(anchorBody[1].id, childrenByParentId),
                            anchorBody \o getChildren(anchorBody[1].id, childrenByParentId),
                            FALSE, SpreadThrows(anchorBody[1].id, childrenByParentId))
        ELSE OrbitLaneModel(<<>>, <<>>, <<>>, <<>>, TRUE, FALSE)

\* deriveOrbitLaneModel in which a system anchor shows the children of the
\* system id instead of those of its primary body.
deriveOrbitLaneModelChildrenOfAnchor(a, systemsById, bodiesById, childrenByParentId) ==
    LET anchorBody == PropertyOf(bodiesById, a)
        system == PropertyOf(systemsById, a)
    IN  IF anchorBody # <<>>
        THEN OrbitLaneModel(PropertyOf(systemsById, anchorBody[1].systemId), anchorBody,
                            getChildren(a, childrenByParentId),
                            anchorBody \o getChildren(a, childrenByParentId), FALSE, FALSE)
        ELSE IF system = <<>> THEN OrbitLaneModel(<<>>, <<>>, <<>>, <<>>, TRUE, FALSE)
        ELSE LET centerBody == PropertyOf(bodiesById, system[1].primaryBodyId)
             IN  IF centerBody = <<>> THEN OrbitLaneModel(system, <<>>, <<>>, <<>>, TRUE, FALSE)
                 ELSE OrbitLaneModel(system, centerBody, getChildren(a, childrenByParentId),
                                     centerBody \o getChildren(a, childrenByParentId),
                                     TRUE, FALSE)

\* deriveOrbitLaneModel for anchor a.
deriveOrbitLaneModel(a, systemsById, bodiesById, childrenByParentId) ==
    LET anchorBody == PropertyOf(bodiesById, a)
        system == PropertyOf(systemsById, a)
    IN  IF anchorBody # <<>>
        THEN OrbitLaneModel(PropertyOf(systemsById, anchorBody[1].systemId), anchorBody,
                            getChildren(anchorBody[1].id, childrenByParentId),
                            anchorBody \o getChildren(anchorBody[1].id, childrenByParentId),
                            FALSE, SpreadThrows(anchorBody[1].id, childrenByParentId))
        ELSE IF system = <<>> THEN OrbitLaneModel(<<>>, <<>>, <<>>, <<>>, TRUE, FALSE)
        ELSE LET centerBody == PropertyOf(bodiesById, system[1].primaryBodyId)
             IN  IF centerBody = <<>> THEN OrbitLaneModel(system, <<>>, <<>>, <<>>, TRUE, FALSE)
                 ELSE OrbitLaneModel(system, centerBody,
                                     getChildren(centerBody[1].id, childrenByParentId),
                                     centerBody \o getChildren(centerBody[1].id, childrenByParentId),
                                     TRUE, SpreadThrows(centerBody[1].id, childrenByParentId))

\* A BreadcrumbItem.
BreadcrumbItem(id, label, kind) == [id |-> id, label |-> label, kind |-> kind]

\* The view before anything was derived.
ViewIdle ==
    /\ anchorId = NoId
    /\ vpc = "idle"
    /\ lane = OrbitLaneModel(<<>>, <<>>, <<>>, <<>>, TRUE, FALSE)
    /\ bcCursor = <<>>
    /\ visited = {}
    /\ chain = <<>>
    /\ crumbs = <<>>

\* The state of the useState hooks of AtlasMapShell.
HookState(anchor, phase, nonce) ==
    [anchorId |-> anchor, transitionPhase |-> phase, fadeNonce |-> nonce]

\* No AtlasMapShell is mounted and no timeout is pending.
ShellIdle ==
    /\ hooks = HookState(NoId, "idle", 0)
    /\ transitionPhase = "idle"
    /\ timers = <<>>
    /\ nextTimerId = 1
    /\ fadeOutTimerRef = 0
    /\ fadeInTimerRef = 0
    /\ mounted = FALSE

----------------------------------------------------------------------------
(* loadContentIndex as a state machine.                                    *)

Init ==
    /\ rootExists \in BOOLEAN
    /\ IF rootExists THEN EditedFrom(BaseCatalogue, MaxEdits) ELSE disk = <<>>
    /\ pc = "start"
    /\ files = <<>>
    /\ cursor = 1
    /\ entriesById = <<>>
    /\ error = NoError
    /\ index = EmptyIndex
    /\ ViewIdle
    /\ ShellIdle

\* ReturnEmpty that lets the failed stat of content/ reject.
ReturnEmptyThrows ==
    /\ pc = "start"
    /\ ~rootExists
    /\ pc' = "failed"
    /\ error' = Thrown("ENOENT", "", NoId, NoId, "", 0, "", 0)
    /\ UNCHANGED <<viewVars, shellVars>>
    /\ UNCHANGED <<rootExists, disk, files, cursor, entriesById, index>>

\* content/ is missing: the empty index is returned.
ReturnEmpty ==
    /\ pc = "start"
    /\ ~rootExists
    /\ pc' = "done"
    /\ index' = EmptyIndex
    /\ UNCHANGED <<viewVars, shellVars>>
    /\ UNCHANGED <<rootExists, disk, files, cursor, entriesById, error>>

\* listContentFiles(contentRoot) and the empty staging map.
Discover ==
    /\ pc = "start"
    /\ rootExists
    /\ files' \in DiscoveryOrders(disk)
    /\ cursor' = 1
    /\ entriesById' = <<>>
    /\ pc' = IF Len(files') = 0 THEN "passA" ELSE "stage"
    /\ UNCHANGED <<viewVars, shellVars>>
    /\ UNCHANGED <<rootExists, disk, error, index>>

\* One iteration of the loop over files: parse, schema-validate, reject a
\* duplicate id or add the entity.
StageFile ==
    /\ pc = "stage"
    /\ cursor <= Len(files)
    /\ LET e == StageError(entriesById, files[cursor])
       IN  IF e.type # "none"
           THEN /\ error' = e
                /\ pc' = "failed"
                /\ UNCHANGED <<cursor, entriesById>>
           ELSE /\ entriesById' = StageSet(entriesById, files[cursor])
                /\ cursor' = cursor + 1
                /\ pc' = IF cursor = Len(files) THEN "passA" ELSE "stage"
                /\ error' = error
    /\ UNCHANGED <<viewVars, shellVars>>
    /\ UNCHANGED <<rootExists, disk, files, index>>

\* validateReferenceIntegrity, first loop (systems).
PassA ==
    /\ pc = "passA"
    /\ error' = PassAError(entriesById)
    /\ pc' = IF error'.type # "none" THEN "failed" ELSE "passB"
    /\ UNCHANGED <<viewVars, shellVars>>
    /\ UNCHANGED <<rootExists, disk, files, cursor, entriesById, index>>

\* validateReferenceIntegrity, second loop (bodies).
PassB ==
    /\ pc = "passB"
    /\ error' = PassBError(entriesById)
    /\ pc' = IF error'.type # "none" THEN "failed" ELSE "passC"
    /\ UNCHANGED <<viewVars, shellVars>>
    /\ UNCHANGED <<rootExists, disk, files, cursor, entriesById, index>>

\* validateReferenceIntegrity, third loop (missions).
PassC ==
    /\ pc = "passC"
    /\ error' = PassCError(entriesById)
    /\ pc' = IF error'.type # "none" THEN "failed" ELSE "materialize"
    /\ UNCHANGED <<viewVars, shellVars>>
    /\ UNCHANGED <<rootExists, disk, files, cursor, entriesById, index>>

\* Stages 5 and 6, and the return.
Materialize ==
    /\ pc = "materialize"
    /\ index' = BuildIndex(entriesById)
    /\ pc' = "done"
    /\ UNCHANGED <<viewVars, shellVars>>
    /\ UNCHANGED <<rootExists, disk, files, cursor, entriesById, error>>

Next ==
    \/ ReturnEmpty
    \/ Discover
    \/ StageFile
    \/ PassA
    \/ PassB
    \/ PassC
    \/ Materialize

Spec == Init /\ [][Next]_vars

\* The part of the reference catalogue that is system "sol" without its
\* moon: small enough to consider every discovery order of it.
SmallCatalogue ==
    LET InSmall(d) == d.id \in {"sol", "sol/sun", "sol/mars", "sol/earth"}
    IN  SelectSeq(BaseCatalogue, InSmall)

InitSmall ==
    /\ rootExists \in BOOLEAN
    /\ IF rootExists THEN EditedFrom(SmallCatalogue, MaxEdits) ELSE disk = <<>>
    /\ pc = "start"
    /\ files = <<>>
    /\ cursor = 1
    /\ entriesById = <<>>
    /\ error = NoError
    /\ index = EmptyIndex
    /\ ViewIdle
    /\ ShellIdle

\* The loader on the small catalogue.
SpecSmall == InitSmall /\ [][Next]_vars

\* The texts a highlight may be: the non-empty texts over Alphabet.
Texts == SeqsUpTo(Alphabet, MaxTextLen) \ {<<>>}

\* The values scientificSynthesis takes: absent, a paragraph "[1]", and two
\* paragraphs "x" and "[2]".
SynthesisChoices == {<<>>, << <<"[", "1", "]">> >>, << <<"x">>, <<"[", "2", "]">> >>}

\* System sol and its primary body.
CitedCatalogue ==
    LET InCited(d) == d.id \in {"sol", "sol/sun"}
    IN  SelectSeq(BaseCatalogue, InCited)

\* Catalogue c with the citation fields of its Body documents set.
WithCitations(c, highlights, scientificSynthesis, sources) ==
    [i \in DOMAIN c |->
        IF c[i].basename = "body.json"
        THEN [c[i] EXCEPT !.highlights = highlights,
                          !.scientificSynthesis = scientificSynthesis,
                          !.sources = sources]
        ELSE c[i]]

InitCited ==
    /\ rootExists \in BOOLEAN
    /\ IF rootExists
       THEN \E h \in {<<>>} \cup {<<t>> : t \in Texts} :
            \E p \in SynthesisChoices :
            \E n \in {Undefined} \cup (1..MaxSources) :
                disk = WithCitations(CitedCatalogue, h, p, n)
       ELSE disk = <<>>
    /\ pc = "start"
    /\ files = <<>>
    /\ cursor = 1
    /\ entriesById = <<>>
    /\ error = NoError
    /\ index = EmptyIndex
    /\ ViewIdle
    /\ ShellIdle

\* The loader on a system whose primary body cites sources.
SpecCited == InitCited /\ [][Next]_vars

----------------------------------------------------------------------------
(* The orbit map derived from a loaded index (AtlasMapShell's render).     *)

loaderVars == <<rootExists, disk, pc, files, cursor, entriesById, error, index>>

\* The lookup tables AtlasMapShell builds from its props.
systemsById == indexById(index.systems)

bodiesById == indexById(index.bodies)

\* buildBreadcrumb: `systemId` for anchor a.
BreadcrumbSystemId(a) ==
    IF PropertyOf(bodiesById, a) # <<>> THEN PropertyOf(bodiesById, a)[1].systemId ELSE a

\* buildBreadcrumb: `system` for anchor a, <<>> when undefined.
BreadcrumbSystem(a) == PropertyOf(systemsById, BreadcrumbSystemId(a))

\* buildBreadcrumb: `root`, when the system is defined.
BreadcrumbRoot(a) ==
    BreadcrumbItem(BreadcrumbSystem(a)[1].id, BreadcrumbSystem(a)[1].name, "system")

\* The body of a render for anchor a: deriveOrbitLaneModel, and
\* buildBreadcrumb up to its early returns or the entry of its loop.
RenderFor(a) ==
    /\ anchorId' = a
    /\ lane' = deriveOrbitLaneModel(a, systemsById, bodiesById, index.childrenByParentId)
    /\ visited' = {}
    /\ chain' = <<>>
    /\ IF BreadcrumbSystem(a) = <<>>
       THEN vpc' = "returned" /\ crumbs' = <<>> /\ bcCursor' = <<>>
       ELSE IF PropertyOf(bodiesById, a) = <<>>
       THEN vpc' = "returned" /\ crumbs' = <<BreadcrumbRoot(a)>> /\ bcCursor' = <<>>
       ELSE vpc' = "walk" /\ crumbs' = <<>> /\ bcCursor' = PropertyOf(bodiesById, a)
    /\ UNCHANGED loaderVars

\* A render for anchor a of a view that has derived nothing yet.
Render(a) ==
    /\ vpc = "idle"
    /\ RenderFor(a)
    /\ UNCHANGED shellVars

\* BreadcrumbStep without the visited set; it stops after more iterations
\* than there are bodies.
BreadcrumbStepNoVisitedCheck ==
    /\ vpc = "walk"
    /\ bcCursor # <<>>
    /\ Len(chain) <= Len(index.bodies)
    /\ LET body == bcCursor[1]
           systemId == BreadcrumbSystemId(anchorId)
           system == BreadcrumbSystem(anchorId)[1]
       IN  IF body.id = system.primaryBodyId /\ anchorId # system.primaryBodyId
           THEN vpc' = "exit" /\ UNCHANGED <<bcCursor, visited, chain>>
           ELSE /\ chain' = Append(chain, BreadcrumbItem(body.id, body.name, "body"))
                /\ UNCHANGED visited
                /\ IF body.navParentId = systemId
                   THEN vpc' = "exit" /\ UNCHANGED bcCursor
                   ELSE vpc' = "walk" /\ bcCursor' = PropertyOf(bodiesById, body.navParentId)
    /\ UNCHANGED <<anchorId, lane, crumbs>>
    /\ UNCHANGED <<loaderVars, shellVars>>

\* BreadcrumbStep that does not leave out the system's primary body.
BreadcrumbStepKeepsPrimary ==
    /\ vpc = "walk"
    /\ bcCursor # <<>>
    /\ LET body == bcCursor[1]
           systemId == BreadcrumbSystemId(anchorId)
       IN  IF body.id \in visited
           THEN vpc' = "exit" /\ UNCHANGED <<bcCursor, visited, chain>>
           ELSE /\ visited' = visited \cup {body.id}
                /\ chain' = Append(chain, BreadcrumbItem(body.id, body.name, "body"))
                /\ IF body.navParentId = systemId
                   THEN vpc' = "exit" /\ UNCHANGED bcCursor
                   ELSE vpc' = "walk" /\ bcCursor' = PropertyOf(bodiesById, body.navParentId)
    /\ UNCHANGED <<anchorId, lane, crumbs>>
    /\ UNCHANGED <<loaderVars, shellVars>>

\* One iteration of the while (cursor) loop of buildBreadcrumb.
BreadcrumbStep ==
    /\ vpc = "walk"
    /\ bcCursor # <<>>
    /\ LET body == bcCursor[1]
           systemId == BreadcrumbSystemId(anchorId)
           system == BreadcrumbSystem(anchorId)[1]
       IN  IF body.id = system.primaryBodyId /\ anchorId # system.primaryBodyId
           THEN vpc' = "exit" /\ UNCHANGED <<bcCursor, visited, chain>>
           ELSE IF body.id \in visited
           THEN vpc' = "exit" /\ UNCHANGED <<bcCursor, visited, chain>>
           ELSE /\ visited' = visited \cup {body.id}
                /\ chain' = Append(chain, BreadcrumbItem(body.id, body.name, "body"))
                /\ IF body.navParentId = systemId
                   THEN vpc' = "exit" /\ UNCHANGED bcCursor
                   ELSE vpc' = "walk" /\ bcCursor' = PropertyOf(bodiesById, body.navParentId)
    /\ UNCHANGED <<anchorId, lane, crumbs>>
    /\ UNCHANGED <<loaderVars, shellVars>>

\* BreadcrumbReturn that returns the chain as walked, anchor first.
BreadcrumbReturnNoReverse ==
    /\ vpc = "exit" \/ (vpc = "walk" /\ bcCursor = <<>>)
    /\ crumbs' = <<BreadcrumbRoot(anchorId)>> \o chain
    /\ vpc' = "returned"
    /\ UNCHANGED <<anchorId, lane, bcCursor, visited, chain>>
    /\ UNCHANGED <<loaderVars, shellVars>>

\* The loop was left by a break or on an undefined cursor: chain.reverse()
\* and return [root, ...chain].
BreadcrumbReturn ==
    /\ vpc = "exit" \/ (vpc = "walk" /\ bcCursor = <<>>)
    /\ crumbs' = <<BreadcrumbRoot(anchorId)>> \o Reverse(chain)
    /\ vpc' = "returned"
    /\ UNCHANGED <<anchorId, lane, bcCursor, visited, chain>>
    /\ UNCHANGED <<loaderVars, shellVars>>

\* The anchors a render is derived for: every id of the model and a name
\* inherited from Object.prototype.
AnchorIds == Ids \cup ObjectPrototypeKeys

\* The reference catalogue without sol/mars and apollo.
ViewCatalogue ==
    LET InView(d) == d.id \notin {"sol/mars", "apollo"}
    IN  SelectSeq(BaseCatalogue, InView)

\* System sol with its primary body, a planet and its moon, and a mission.
WalkCatalogue ==
    LET InWalk(d) == d.id \in {"sol", "sol/sun", "sol/moon", "sol/earth", "voyager"}
    IN  SelectSeq(BaseCatalogue, InWalk)

\* The props of AtlasMapShell: the index of a load that succeeded, of a
\* catalogue that is `catalogue` edited.
LoadedFrom(catalogue) ==
    /\ rootExists \in BOOLEAN
    /\ IF rootExists THEN EditedFrom(catalogue, MaxEdits) ELSE disk = <<>>
    /\ files \in (IF rootExists THEN DiscoveryOrders(disk) ELSE {<<>>})
    /\ pc = "done"
    /\ cursor = Len(files) + 1
    /\ error = NoError
    /\ IF rootExists
       THEN \E staged \in {StageFrom(files, 1, <<>>)} :
               /\ staged.error = NoError
               /\ validateReferenceIntegrity(staged.entriesById) = NoError
               /\ entriesById = staged.entriesById
               /\ index = BuildIndex(staged.entriesById)
       ELSE entriesById = <<>> /\ index = EmptyIndex

\* The view over such an index, before anything was derived.
InitViewFrom(catalogue) ==
    /\ LoadedFrom(catalogue)
    /\ ViewIdle
    /\ ShellIdle

InitView == InitViewFrom(ViewCatalogue)

InitWalk == InitViewFrom(WalkCatalogue)

NextView ==
    \/ \E a \in AnchorIds : Render(a)
    \/ BreadcrumbStep
    \/ BreadcrumbReturn

SpecView == InitView /\ [][NextView]_vars

\* Renders from the walk catalogue; a render that was started runs to its
\* end.
FairSpecWalk == InitWalk /\ [][NextView]_vars /\ WF_vars(NextView)

----------------------------------------------------------------------------
(* AtlasMapShell: anchor changes and their two fades.                      *)

\* `primarySystem`: the system "sol", else the first system, <<>> when
\* there is none.
primarySystem ==
    LET sol == SelectSeq(index.systems, LAMBDA system : system.id = "sol")
    IN  IF sol # <<>> THEN <<sol[1]>>
        ELSE IF index.systems # <<>> THEN <<index.systems[1]>>
        ELSE <<>>

\* The initial value of the anchorId state.
InitialAnchorId == IF primarySystem # <<>> THEN primarySystem[1].id ELSE "sol"

\* A pending timeout: its handle, which callback it runs, and the
\* nextAnchorId its callback closes over.
Timer(id, kind, nextAnchorId) == [id |-> id, kind |-> kind, nextAnchorId |-> nextAnchorId]

\* The pending timeouts that run the fade-out callback.
PendingFadeOut == {i \in DOMAIN timers : timers[i].kind = "fadeOut"}

\* The pending timeouts that run the fade-in callback.
PendingFadeIn == {i \in DOMAIN timers : timers[i].kind = "fadeIn"}

\* The ids the buttons of the last render pass to handleAnchorChange:
\* every crumb, and every marker that can interact.
ClickTargets ==
    {crumbs[i].id : i \in DOMAIN crumbs}
        \cup {lane.laneBodies[i].id :
                 i \in {j \in DOMAIN lane.laneBodies :
                           (j # 1 \/ lane.isSystemRoot) /\ transitionPhase = "idle"}}

\* A set state call changed the state the last render read: React has a
\* render scheduled.
RenderDue ==
    /\ mounted
    /\ vpc = "returned"
    /\ hooks.anchorId # anchorId \/ hooks.transitionPhase # transitionPhase

\* React renders the component: on mount, and when a render is scheduled.
ShellRender ==
    /\ mounted
    /\ vpc = "idle" \/ RenderDue
    /\ RenderFor(hooks.anchorId)
    /\ transitionPhase' = hooks.transitionPhase
    /\ UNCHANGED <<hooks, timers, nextTimerId, fadeOutTimerRef, fadeInTimerRef, mounted>>

\* handleAnchorChange that takes any id, not only those of rendered buttons.
HandleAnchorChangeAnyTarget(nextAnchorId) ==
    /\ mounted
    /\ vpc = "returned"
    /\ IF transitionPhase # "idle" \/ nextAnchorId = anchorId
       THEN UNCHANGED vars
       ELSE /\ nextTimerId + 1 + Cardinality(PendingFadeOut) <= MaxTimers
            /\ hooks' = [hooks EXCEPT !.transitionPhase = "fadingOut"]
            /\ timers' = Append(timers, Timer(nextTimerId, "fadeOut", nextAnchorId))
            /\ fadeOutTimerRef' = nextTimerId
            /\ nextTimerId' = nextTimerId + 1
            /\ UNCHANGED <<transitionPhase, fadeInTimerRef, mounted>>
            /\ UNCHANGED <<loaderVars, viewVars>>

\* A click on a crumb or marker of the last render: handleAnchorChange,
\* called by the handler that render created, with the isTransitioning and
\* anchorId that render read.
HandleAnchorChange(nextAnchorId) ==
    /\ mounted
    /\ vpc = "returned"
    /\ nextAnchorId \in ClickTargets
    /\ IF transitionPhase # "idle" \/ nextAnchorId = anchorId
       THEN UNCHANGED vars
       ELSE /\ nextTimerId + 1 + Cardinality(PendingFadeOut) <= MaxTimers
            /\ hooks' = [hooks EXCEPT !.transitionPhase = "fadingOut"]
            /\ timers' = Append(timers, Timer(nextTimerId, "fadeOut", nextAnchorId))
            /\ fadeOutTimerRef' = nextTimerId
            /\ nextTimerId' = nextTimerId + 1
            /\ UNCHANGED <<transitionPhase, fadeInTimerRef, mounted>>
            /\ UNCHANGED <<loaderVars, viewVars>>

\* The callback of the fade-out timeout.  All timeouts have the delay
\* BODY_FADE_DURATION_MS, so they run in the order they were set, and
\* after the render that was scheduled when they were set.  The set state
\* calls of an unmounted component do nothing.
FadeOutTimer ==
    /\ vpc = "returned"
    /\ ~RenderDue
    /\ timers # <<>>
    /\ Head(timers).kind = "fadeOut"
    /\ hooks' = IF mounted
                THEN HookState(Head(timers).nextAnchorId, "fadingIn", hooks.fadeNonce + 1)
                ELSE hooks
    /\ timers' = Append(Tail(timers), Timer(nextTimerId, "fadeIn", NoId))
    /\ fadeInTimerRef' = nextTimerId
    /\ nextTimerId' = nextTimerId + 1
    /\ fadeOutTimerRef' = 0
    /\ UNCHANGED <<transitionPhase, mounted>>
    /\ UNCHANGED <<loaderVars, viewVars>>

\* The callback of the fade-in timeout.
FadeInTimer ==
    /\ vpc = "returned"
    /\ ~RenderDue
    /\ timers # <<>>
    /\ Head(timers).kind = "fadeIn"
    /\ hooks' = IF mounted THEN [hooks EXCEPT !.transitionPhase = "idle"] ELSE hooks
    /\ timers' = Tail(timers)
    /\ fadeInTimerRef' = 0
    /\ UNCHANGED <<transitionPhase, nextTimerId, fadeOutTimerRef, mounted>>
    /\ UNCHANGED <<loaderVars, viewVars>>

\* The component unmounts: the effect cleanup clears the timeouts the two
\* refs hold.
Unmount ==
    /\ mounted
    /\ vpc = "returned"
    /\ mounted' = FALSE
    /\ timers' = SelectSeq(timers, LAMBDA t : t.id \notin {fadeOutTimerRef, fadeInTimerRef})
    /\ UNCHANGED <<hooks, transitionPhase, nextTimerId, fadeOutTimerRef, fadeInTimerRef>>
    /\ UNCHANGED <<loaderVars, viewVars>>

\* System sol with its primary body, a planet and its moon.
ShellCatalogue ==
    LET InShell(d) == d.id \in {"sol", "sol/sun", "sol/moon", "sol/earth"}
    IN  SelectSeq(BaseCatalogue, InShell)

\* AtlasMapShell is mounted over the index of a load that succeeded; its
\* first render is due.
InitShell ==
    /\ LoadedFrom(ShellCatalogue)
    /\ ViewIdle
    /\ hooks = HookState(InitialAnchorId, "idle", 0)
    /\ transitionPhase = "idle"
    /\ timers = <<>>
    /\ nextTimerId = 1
    /\ fadeOutTimerRef = 0
    /\ fadeInTimerRef = 0
    /\ mounted = TRUE

NextShell ==
    \/ ShellRender
    \/ BreadcrumbStep
    \/ BreadcrumbReturn
    \/ \E nextAnchorId \in AnchorIds : HandleAnchorChange(nextAnchorId)
    \/ FadeOutTimer
    \/ FadeInTimer
    \/ Unmount

SpecShell == InitShell /\ [][NextShell]_vars

\* The browser runs a timeout that is due, and React a render that is due.
FairSpecShell ==
    /\ InitShell
    /\ [][NextShell]_vars
    /\ WF_vars(ShellRender \/ BreadcrumbStep \/ BreadcrumbReturn)
    /\ WF_vars(FadeOutTimer)
    /\ WF_vars(FadeInTimer)

----------------------------------------------------------------------------
(* Vocabulary of the properties.                                           *)

Range(s) == {s[i] : i \in DOMAIN s}

\* loadContentIndex has returned or thrown.
Terminal == pc \in {"done", "failed"}

\* The documents on disk of kind `kind` that parse and fit their schema.
DocsOfKind(kind) ==
    {d \in Range(disk) : d.parse = "ok" /\ kindFromFilename(d.basename) = kind}

DocsOfAnyKind == {d \in Range(disk) : d.parse = "ok"}

\* Two documents on disk declare the same id.
DuplicateOnDisk ==
    \E i, j \in DOMAIN disk :
        i # j /\ disk[i].parse = "ok" /\ disk[j].parse = "ok" /\ disk[i].id = disk[j].id

\* The id names a System, Body or Mission of the returned index.
IsSystem(id) == \E s \in Range(index.systems) : s.id = id

IsBody(id) == \E b \in Range(index.bodies) : b.id = id

IsMission(id) == \E m \in Range(index.missions) : m.id = id

\* The rules of the integrity passes, stated on the documents themselves.
PrimaryBodyRuleBroken ==
    \E s \in DocsOfKind("system") :
        ~\E b \in DocsOfKind("body") :
            b.id = s.primaryBodyId /\ b.systemId = s.id /\ b.navParentId = s.id

SystemIdRuleBroken ==
    \E b \in DocsOfKind("body") : ~\E s \in DocsOfKind("system") : s.id = b.systemId

NavParentRuleBroken ==
    \E b \in DocsOfKind("body") :
        b.navParentId = b.id \/ ~\E d \in DocsOfAnyKind : d.id = b.navParentId

RootChildRuleBroken ==
    \E b \in DocsOfKind("body") :
        /\ b.navParentId = b.systemId
        /\ ~\E s \in DocsOfKind("system") : s.id = b.systemId /\ s.primaryBodyId = b.id

RelationRuleBroken ==
    \E m \in DocsOfKind("mission") :
        \E r \in DOMAIN m.relations : ~\E d \in DocsOfAnyKind : d.id = m.relations[r]

----------------------------------------------------------------------------
(* Properties.                                                             *)

\* C1: global id uniqueness.  A load that succeeds had no two documents
\* declaring the same id; when two documents of well-formed content share
\* an id the load throws "Duplicate id", and that error names two distinct
\* discovered files declaring the id, each with its kind.
GlobalIdUniqueness ==
    /\ pc = "done" => ~DuplicateOnDisk
    /\ (Terminal /\ DuplicateOnDisk /\ \A d \in Range(disk) : d.parse = "ok")
          => (pc = "failed" /\ error.type = "Duplicate id")
    /\ (pc = "failed" /\ error.type = "Duplicate id") =>
          \E i, j \in DOMAIN files :
              /\ i < j
              /\ files[i].id = error.id /\ files[j].id = error.id
              /\ error.existingRelPath = files[i].relPath
              /\ error.existingKind = kindFromFilename(files[i].basename)
              /\ error.relPath = files[j].relPath
              /\ error.kind = kindFromFilename(files[j].basename)

\* C1 witness: the load threw on an id shared by documents of two kinds.
DuplicateAcrossKindsThrown ==
    pc = "failed" /\ error.type = "Duplicate id" /\ error.kind # error.existingKind

\* C2: single root child.  In a loaded index every System has at most one
\* Body whose navParentId is the System's id, and that Body is the entity
\* named by the System's primaryBodyId.
SingleRootChild ==
    pc = "done" =>
        \A s \in Range(index.systems) :
            LET kids == {b \in Range(index.bodies) : b.navParentId = s.id}
            IN  /\ Cardinality(kids) <= 1
                /\ \A b \in kids : b.id = s.primaryBodyId

RECURSIVE ReachesSystem(_, _)
\* Walking navParentId upward from id reaches a System without visiting an
\* id of `seen` or any id twice.
ReachesSystem(id, seen) ==
    IF IsSystem(id) THEN TRUE
    ELSE IF id \in seen \/ ~IsBody(id) THEN FALSE
    ELSE ReachesSystem(index.entitiesById[id].navParentId, seen \cup {id})

\* C3: navParentId forms a tree.  In a loaded index the upward walk from
\* every Body reaches a System without visiting an id twice.
NavParentTree ==
    pc = "done" => \A b \in Range(index.bodies) : ReachesSystem(b.id, {})

\* C4: in a loaded index every Body's navParentId names a System or a
\* Body, never a Mission.
NavParentNeverMission ==
    pc = "done" =>
        \A b \in Range(index.bodies) :
            (IsSystem(b.navParentId) \/ IsBody(b.navParentId)) /\ ~IsMission(b.navParentId)

\* C5: in a loaded index every System's primaryBodyId names a Body whose
\* systemId and navParentId are the System's id; content in which a System
\* has no such Body makes the load fail.
PrimaryBodyResolves ==
    /\ pc = "done" =>
          \A s \in Range(index.systems) :
              /\ s.primaryBodyId \in DOMAIN index.entitiesById
              /\ IsBody(s.primaryBodyId)
              /\ index.entitiesById[s.primaryBodyId].systemId = s.id
              /\ index.entitiesById[s.primaryBodyId].navParentId = s.id
    /\ (Terminal /\ PrimaryBodyRuleBroken) => pc = "failed"

\* C5 witness: a load succeeded with two Systems, each with its primary Body.
TwoSystemsLoaded ==
    pc = "done" /\ Len(index.systems) = 2 /\ Len(index.bodies) >= 2

SystemIdResolves ==
    /\ pc = "done" => \A b \in Range(index.bodies) : IsSystem(b.systemId)
    /\ (Terminal /\ SystemIdRuleBroken) => pc = "failed"

\* C7 witness: the load threw on a systemId that names an existing entity
\* which is no System.
SystemIdOfOtherKindThrown ==
    /\ pc = "failed" /\ error.type = "Invalid systemId"
    /\ \E d \in Range(disk) : d.id = error.ref /\ kindFromFilename(d.basename) # "system"

\* C8: in a loaded index every Body's navParentId names an existing entity
\* other than the Body itself; a self-parented Body or a dangling
\* navParentId makes the load fail.
NavParentResolves ==
    /\ pc = "done" =>
          \A b \in Range(index.bodies) :
              b.navParentId \in DOMAIN index.entitiesById /\ b.navParentId # b.id
    /\ (Terminal /\ NavParentRuleBroken) => pc = "failed"

\* C8 witness: the load threw on a self-parented Body.
SelfParentThrown ==
    pc = "failed" /\ error.type = "Invalid navParentId" /\ error.ref = error.id

\* C9: in a loaded index every relation targetId of every Mission names an
\* existing entity of any kind; an unresolved targetId makes the load fail.
RelationTargetsResolve ==
    /\ pc = "done" =>
          \A m \in Range(index.missions) :
              \A r \in DOMAIN m.relations : m.relations[r] \in DOMAIN index.entitiesById
    /\ (Terminal /\ RelationRuleBroken) => pc = "failed"

\* C9 witness: a load succeeded with a Mission whose relation targets a
\* Mission.
MissionTargetsMissionLoaded ==
    /\ pc = "done"
    /\ \E m \in Range(index.missions) : \E r \in DOMAIN m.relations : IsMission(m.relations[r])

\* C10: all or nothing.  Content with a malformed or schema-invalid
\* document, a duplicate id or a broken integrity rule makes the load throw;
\* a load that throws returns no index; a load that succeeds holds exactly
\* one entity per discovered file, the entity that file declares.
AllOrNothing ==
    /\ (/\ Terminal
        /\ \/ \E d \in Range(disk) : d.parse # "ok"
           \/ DuplicateOnDisk
           \/ PrimaryBodyRuleBroken \/ SystemIdRuleBroken \/ NavParentRuleBroken
           \/ RootChildRuleBroken \/ RelationRuleBroken)
          => pc = "failed"
    /\ pc = "failed" => (error.type # "none" /\ index = EmptyIndex)
    /\ pc = "done" =>
          /\ error.type = "none"
          /\ Cardinality(DOMAIN index.entitiesById) = Len(disk)
          /\ \A d \in Range(disk) :
                d.id \in DOMAIN index.entitiesById /\ index.entitiesById[d.id] = EntityOf(d)

\* C10 witness: a load of the whole catalogue succeeded with one entity per
\* file.
EveryFileLoaded ==
    /\ pc = "done" /\ Len(files) = Len(BaseCatalogue)
    /\ Cardinality(DOMAIN index.entitiesById) = Len(BaseCatalogue)

\* C11: duplicate-id detection does not depend on the discovery order.
\* When every document parses and two share an id, the run throws
\* "Duplicate id", and so does the load in every other order of the same
\* files, each citing two files that declare one id, the later of them as
\* the file seen second.
DuplicateDetectionOrderIndependent ==
    (Terminal /\ DuplicateOnDisk /\ \A d \in Range(disk) : d.parse = "ok") =>
        /\ pc = "failed" /\ error.type = "Duplicate id"
        /\ \A q \in Reorderings(files) :
              LET e == loadContentIndex(q).error
              IN  /\ e.type = "Duplicate id"
                  /\ \E i, j \in DOMAIN q :
                        /\ i < j
                        /\ q[i].id = e.id /\ q[j].id = e.id
                        /\ e.existingRelPath = q[i].relPath
                        /\ e.relPath = q[j].relPath

\* C11 witness: a run threw "Duplicate id", and in another order of the
\* same files the load cites a different file as seen second.
DuplicateCitedDiffersByOrder ==
    /\ pc = "failed" /\ error.type = "Duplicate id"
    /\ \E q \in Reorderings(files) : loadContentIndex(q).error.relPath # error.relPath

\* a is not after b in the order of the content model: a navOrder present
\* before one absent, a smaller navOrder before a larger, and by name
\* between bodies of one navOrder or both without.
InNavOrder(a, b) ==
    IF a.navOrder # Undefined /\ b.navOrder = Undefined THEN TRUE
    ELSE IF a.navOrder = Undefined /\ b.navOrder # Undefined THEN FALSE
    ELSE IF a.navOrder < b.navOrder THEN TRUE
    ELSE IF a.navOrder > b.navOrder THEN FALSE
    ELSE a.name <= b.name

BodiesOrdered(s) == \A i, j \in DOMAIN s : i < j => InNavOrder(s[i], s[j])

NamesOrdered(s) == \A i, j \in DOMAIN s : i < j => s[i].name <= s[j].name

SiblingSortTotal ==
    pc = "done" =>
        \A k \in DOMAIN index.childrenByParentId :
            LET siblings == index.childrenByParentId[k]
            IN  \A i, j \in DOMAIN siblings :
                    i # j => sortBodies(siblings[i], siblings[j]) # 0

\* C15: a build returns the index that a build of the same files returns in
\* every other discovery order, list orders included.
BuildOrderIndependent ==
    pc = "done" =>
        \A q \in Reorderings(files) :
            loadContentIndex(q) = [error |-> NoError, index |-> index]

\* C16: in a built index every Body is in the childrenByParentId list of its
\* navParentId and in the bodiesBySystemId list of its systemId, and every
\* element of the list under a key has that key as its navParentId
\* (respectively systemId).
GroupingRoundTrip ==
    pc = "done" =>
        /\ \A b \in Range(index.bodies) :
              /\ b.navParentId \in DOMAIN index.childrenByParentId
              /\ b \in Range(index.childrenByParentId[b.navParentId])
              /\ b.systemId \in DOMAIN index.bodiesBySystemId
              /\ b \in Range(index.bodiesBySystemId[b.systemId])
        /\ \A k \in DOMAIN index.childrenByParentId :
              \A b \in Range(index.childrenByParentId[k]) : b.navParentId = k
        /\ \A k \in DOMAIN index.bodiesBySystemId :
              \A b \in Range(index.bodiesBySystemId[k]) : b.systemId = k

\* C16 witness: an index was built with Bodies under several parents and in
\* several systems, one parent having several children.
SeveralGroupsLoaded ==
    /\ pc = "done"
    /\ Cardinality(DOMAIN index.childrenByParentId) > 2
    /\ Cardinality(DOMAIN index.bodiesBySystemId) > 1
    /\ \E k \in DOMAIN index.childrenByParentId : Len(index.childrenByParentId[k]) > 1

\* C17: when content/ does not exist, loadContentIndex throws nothing and
\* returns an index whose systems, bodies, missions, entitiesById,
\* bodiesBySystemId and childrenByParentId are all empty.
MissingRootYieldsEmptyIndex ==
    ~rootExists =>
        /\ pc \in {"start", "done"}
        /\ error = NoError
        /\ pc = "done" =>
              /\ index.systems = <<>> /\ index.bodies = <<>> /\ index.missions = <<>>
              /\ DOMAIN index.entitiesById = {}
              /\ DOMAIN index.bodiesBySystemId = {}
              /\ DOMAIN index.childrenByParentId = {}

\* C17 witness: loadContentIndex returned without a content root.
ReturnedWithoutContentRoot == pc = "done" /\ ~rootExists

\* The children recorded for id, none if the index has no list for it.
ChildrenOf(id) ==
    IF id \in DOMAIN index.childrenByParentId THEN index.childrenByParentId[id] ELSE <<>>

UnresolvedAnchorDegenerate ==
    (vpc # "idle" /\ ~IsBody(anchorId) /\ ~IsSystem(anchorId)) =>
        /\ lane.centerBody = <<>>
        /\ lane.orbiters = <<>>
        /\ lane.laneBodies = <<>>
        /\ ~lane.thrown
        /\ vpc = "returned"
        /\ crumbs = <<>>

BodyWithId(id) == CHOOSE x \in Range(index.bodies) : x.id = id

SystemWithId(id) == CHOOSE x \in Range(index.systems) : x.id = id

\* C21: buildBreadcrumb returns the crumbs root first.  For a System
\* anchor the list is exactly that System's crumb.  For a Body anchor the
\* first crumb is the Body's System, the last crumb is the anchor, and every
\* Body crumb after the first Body crumb has as navParentId the id of the
\* crumb before it.
BreadcrumbRootToAnchor ==
    vpc = "returned" =>
        /\ IsSystem(anchorId) =>
              crumbs = <<[id |-> anchorId, label |-> SystemWithId(anchorId).name,
                          kind |-> "system"]>>
        /\ IsBody(anchorId) =>
              LET s == SystemWithId(BodyWithId(anchorId).systemId)
                  n == Len(crumbs)
              IN  /\ n >= 2
                  /\ crumbs[1] = [id |-> s.id, label |-> s.name, kind |-> "system"]
                  /\ crumbs[n] = [id |-> anchorId, label |-> BodyWithId(anchorId).name,
                                  kind |-> "body"]
                  /\ \A i \in 2..n : crumbs[i].kind = "body" /\ IsBody(crumbs[i].id)
                  /\ \A i \in 3..n : BodyWithId(crumbs[i].id).navParentId = crumbs[i - 1].id

\* C21 witness: buildBreadcrumb returned a System crumb and at least two
\* Body crumbs for a Body anchor.
LongBreadcrumbReturned ==
    /\ vpc = "returned"
    /\ IsBody(anchorId)
    /\ Len(crumbs) >= 3

\* C22: the primary Body of the anchor's System is in the crumbs only when
\* it is the anchor.  For the primary Body as anchor the crumbs are
\* [system, primary]; for a Body whose parent is a Body whose parent is the
\* primary Body they are [system, parent, anchor].
PrimaryBodyOmitted ==
    (vpc = "returned" /\ IsBody(anchorId)) =>
        LET b == BodyWithId(anchorId)
            s == SystemWithId(b.systemId)
            Crumb(x) == [id |-> x.id, label |-> x.name, kind |-> "body"]
            root == [id |-> s.id, label |-> s.name, kind |-> "system"]
        IN  /\ anchorId # s.primaryBodyId =>
                  \A i \in DOMAIN crumbs :
                      ~(crumbs[i].kind = "body" /\ crumbs[i].id = s.primaryBodyId)
            /\ anchorId = s.primaryBodyId => crumbs = <<root, Crumb(b)>>
            /\ (/\ anchorId # s.primaryBodyId
                /\ IsBody(b.navParentId)
                /\ b.navParentId # s.primaryBodyId
                /\ BodyWithId(b.navParentId).navParentId = s.primaryBodyId)
               => crumbs = <<root, Crumb(BodyWithId(b.navParentId)), Crumb(b)>>

\* C22 witness: buildBreadcrumb returned for a moon whose planet orbits the
\* primary Body of its System.
MoonBreadcrumbReturned ==
    /\ vpc = "returned"
    /\ IsBody(anchorId)
    /\ IsBody(BodyWithId(anchorId).navParentId)
    /\ BodyWithId(BodyWithId(anchorId).navParentId).navParentId =
          SystemWithId(BodyWithId(anchorId).systemId).primaryBodyId
    /\ Len(crumbs) = 3

RECURSIVE DecimalValue(_)
\* The number a run of digits writes in decimal.
DecimalValue(digits) ==
    IF Len(digits) = 1 THEN DigitValue(digits[1])
    ELSE DigitValue(digits[Len(digits)]) + 10 * DecimalValue(SubSeq(digits, 1, Len(digits) - 1))

\* The numbers n of the inline markers [n] of a text: an opening bracket,
\* one or more digits, a closing bracket.
MarkersOf(text) ==
    {DecimalValue(SubSeq(text, i + 1, j - 1)) :
        <<i, j>> \in {ij \in (DOMAIN text) \X (DOMAIN text) :
                        /\ ij[1] + 1 < ij[2]
                        /\ text[ij[1]] = "[" /\ text[ij[2]] = "]"
                        /\ \A k \in (ij[1] + 1)..(ij[2] - 1) : text[k] \in Digits}}

\* The markers in the highlights and scientificSynthesis of a Body.
CitedNumbers(b) ==
    UNION {MarkersOf(t) : t \in Range(b.highlights) \cup Range(b.scientificSynthesis)}

\* Some marker of b has no source to name.
CitationBroken(b) ==
    \E n \in CitedNumbers(b) : b.sources = Undefined \/ n < 1 \/ n > b.sources

\* C23: in a loaded index no Body has a marker [n] without sources or with
\* n below 1 or above the number of sources; a Body document with such a
\* marker makes the load fail on the schema of its file.
CitationsInRange ==
    /\ pc = "done" => \A b \in Range(index.bodies) : ~CitationBroken(b)
    /\ Terminal =>
          \A d \in DocsOfKind("body") :
              CitationBroken(d) =>
                  /\ pc = "failed"
                  /\ error.type = "Schema validation failed"
                  /\ error.relPath = d.relPath

\* C23 witness: the load failed on a Body that cites [2] with one source.
CitationAboveSourcesThrown ==
    /\ pc = "failed"
    /\ \E d \in DocsOfKind("body") :
          /\ d.sources = 1
          /\ d.scientificSynthesis = <<>>
          /\ 2 \in CitedNumbers(d)

\* a is not after b in the order of the design document: navOrder
\* ascending where present, then curationScore descending, then name
\* ascending.
InCurationOrder(a, b) ==
    IF a.navOrder # Undefined /\ b.navOrder = Undefined THEN TRUE
    ELSE IF a.navOrder = Undefined /\ b.navOrder # Undefined THEN FALSE
    ELSE IF a.navOrder # b.navOrder THEN a.navOrder < b.navOrder
    ELSE IF a.curationScore # b.curationScore THEN a.curationScore > b.curationScore
    ELSE a.name <= b.name

\* C24: the children listed for a navParentId are sorted by navOrder
\* ascending, then curationScore descending, then name ascending.
ChildrenInCurationOrder ==
    pc = "done" =>
        \A k \in DOMAIN index.childrenByParentId :
            LET children == index.childrenByParentId[k]
            IN  \A i, j \in DOMAIN children :
                    i < j => InCurationOrder(children[i], children[j])

\* Some Body on disk breaks a rule of the second loop.
BodyRuleBroken == SystemIdRuleBroken \/ NavParentRuleBroken \/ RootChildRuleBroken

\* Every document on disk was staged: the integrity passes were entered.
AllStaged ==
    /\ rootExists
    /\ \A d \in Range(disk) : d.parse = "ok"
    /\ ~DuplicateOnDisk

\* C25: the integrity passes run in order.  The second loop starts only
\* when every System passed the first, the third only when every Body
\* passed the second; so a load of staged content that breaks the
\* primaryBodyId rule fails with "Invalid primaryBodyId" whatever else is
\* broken and in whichever order the files were discovered, content that
\* breaks only Body and Mission rules fails with a Body error, and content
\* that breaks only the relation rule with "Invalid relation targetId".
PassesRunInOrder ==
    /\ pc \in {"passB", "passC", "materialize", "done"} => ~PrimaryBodyRuleBroken
    /\ pc \in {"passC", "materialize", "done"} => ~BodyRuleBroken
    /\ pc \in {"materialize", "done"} => ~RelationRuleBroken
    /\ (Terminal /\ AllStaged /\ PrimaryBodyRuleBroken) =>
          (pc = "failed" /\ error.type = "Invalid primaryBodyId")
    /\ (Terminal /\ AllStaged /\ ~PrimaryBodyRuleBroken /\ BodyRuleBroken) =>
          (pc = "failed" /\ error.type \in {"Invalid systemId", "Invalid navParentId"})
    /\ (Terminal /\ AllStaged /\ ~PrimaryBodyRuleBroken /\ ~BodyRuleBroken
            /\ RelationRuleBroken) =>
          (pc = "failed" /\ error.type = "Invalid relation targetId")

\* C25 witness: a load whose files were discovered bodies first, with both
\* a broken primaryBodyId rule and a broken Body rule, failed on the System.
SystemErrorWinsOverBodyError ==
    /\ pc = "failed"
    /\ AllStaged
    /\ PrimaryBodyRuleBroken
    /\ BodyRuleBroken
    /\ files # <<>>
    /\ kindFromFilename(files[1].basename) # "system"
    /\ error.type = "Invalid primaryBodyId"

TransitionsNeverOverlap ==
    /\ Cardinality(PendingFadeOut) <= 1
    /\ Cardinality(PendingFadeIn) <= 1
    /\ PendingFadeOut = {} \/ PendingFadeIn = {}
    /\ (mounted /\ hooks.transitionPhase = "idle") => timers = <<>>

\* The phase steps of one anchor change.
PhaseStep(from, to) ==
    hooks.transitionPhase = from /\ hooks'.transitionPhase = to

\* C27: an accepted anchor change goes idle -> fadingOut -> fadingIn ->
\* idle; anchorId changes only with the step fadingOut -> fadingIn, to the
\* id that was requested; a call for the current anchorId changes nothing;
\* and unless the component unmounts, the shell becomes idle again with the
\* requested id as anchorId.
AnchorChangePhases ==
    /\ [][\/ PhaseStep("idle", "fadingOut")
          \/ PhaseStep("fadingOut", "fadingIn")
          \/ PhaseStep("fadingIn", "idle")]_<<hooks.transitionPhase>>
    /\ [][hooks'.anchorId # hooks.anchorId =>
            /\ PhaseStep("fadingOut", "fadingIn")
            /\ timers # <<>>
            /\ hooks'.anchorId = Head(timers).nextAnchorId]_vars
    /\ [][HandleAnchorChange(anchorId) => UNCHANGED vars]_vars
    /\ \A x \in AnchorIds :
          (\E i \in PendingFadeOut : timers[i].nextAnchorId = x)
              ~> (~mounted \/ (hooks.transitionPhase = "idle" /\ hooks.anchorId = x))

\* The id is that of a System or Body of the index.
IsSystemOrBody(id) ==
    (\E s \in DOMAIN index.systems : index.systems[s].id = id)
        \/ (\E b \in DOMAIN index.bodies : index.bodies[b].id = id)

\* C30: navigation closure.  When the initial anchorId is the id of a
\* System, the anchorId state, the anchorId every render reads and the id
\* every pending anchor change asks for are ids of a System or Body; every
\* finished render shows a lane that is not empty and a breadcrumb that
\* starts with a System crumb, which is a button of that render.
NavigationClosed ==
    (\E s \in DOMAIN index.systems : index.systems[s].id = InitialAnchorId) =>
        /\ IsSystemOrBody(hooks.anchorId)
        /\ \A i \in DOMAIN timers :
              timers[i].kind = "fadeOut" => IsSystemOrBody(timers[i].nextAnchorId)
        /\ vpc = "returned" =>
              /\ IsSystemOrBody(anchorId)
              /\ lane.laneBodies # <<>>
              /\ crumbs # <<>>
              /\ crumbs[1].kind = "system"
              /\ \E s \in DOMAIN index.systems : index.systems[s].id = crumbs[1].id
              /\ crumbs[1].id \in {crumbs[i].id : i \in DOMAIN crumbs}

\* C30 witness: after a marker click and a breadcrumb click the shell is
\* idle at the System again.
BackAtSystemRoot ==
    /\ mounted
    /\ vpc = "returned"
    /\ hooks.fadeNonce = 2
    /\ hooks.transitionPhase = "idle"
    /\ transitionPhase = "idle"
    /\ anchorId = InitialAnchorId
    /\ \E s \in DOMAIN index.systems : index.systems[s].id = anchorId

\* C28: validation parity.  On the same files the validator reports
\* success exactly when loadContentIndex returns an index.
ValidationParity ==
    Terminal => (validateMain(rootExists, files).type = "none" <=> pc = "done")

====
